---- MODULE Spec2Model ----
(***************************************************************************)
(* The build planner of snmalloc-sys (snmalloc-sys/build.rs): from the     *)
(* target facts, the detected compiler and the cargo features it derives   *)
(* the compiler flags and preprocessor defines handed to the native        *)
(* builder (cc::Build or cmake::Config) and the cargo link directives it   *)
(* prints.                                                                 *)
(*                                                                         *)
(* Strings the code searches with str::contains (the target triple, the   *)
(* CC hint, MSYSTEM) are sequences of one-character strings, so that       *)
(* Contains is a real substring search.  Option<String> is a sequence of   *)
(* length 0 (None) or 1 (Some).  A define's value is the sequence of its   *)
(* space-separated words.                                                  *)
(***************************************************************************)
EXTENDS Integers, Sequences, FiniteSets

VARIABLES
    pc,               \* the statement of main() that runs next
    cfg,              \* the cargo features the build script was compiled with
    config,           \* the BuildConfig, its builder included
    links,            \* the cargo:rustc-link-* lines printed so far
    env_cc,           \* env::var("CC") as detect_compiler found it
    android_ndk,      \* env::var("ANDROID_NDK") as configure_android found it
    android_platform, \* env::var("ANDROID_PLATFORM") as configure_android found it
    host_os           \* the build script's own cfg!(target_os), once consulted

vars == <<pc, cfg, config, links, env_cc, android_ndk, android_platform, host_os>>

\* At most this many cargo features are enabled in one build.
MaxFeatures == 2

--------------------------------------------------------------------------
(* Strings *)

\* str::contains
Contains(hay, needle) ==
    \E i \in 1..(Len(hay) - Len(needle) + 1) :
        \A j \in 1..Len(needle) : hay[i + j - 1] = needle[j]

s_android == <<"a","n","d","r","o","i","d">>
s_aarch64 == <<"a","a","r","c","h","6","4">>
s_armv7 == <<"a","r","m","v","7">>
s_x86_64 == <<"x","8","6","_","6","4">>
s_i686 == <<"i","6","8","6">>
s_neon == <<"n","e","o","n">>
s_arm == <<"a","r","m">>
s_clang == <<"c","l","a","n","g">>
s_gcc == <<"g","c","c">>
s_CLANG == <<"C","L","A","N","G">>
s_CLANG64 == <<"C","L","A","N","G","6","4">>
s_CLANGARM64 == <<"C","L","A","N","G","A","R","M","6","4">>
s_UCRT64 == <<"U","C","R","T","6","4">>
s_MINGW64 == <<"M","I","N","G","W","6","4">>

None == <<>>
Some(v) == <<v>>

--------------------------------------------------------------------------
(* The ambient build context: what cargo and the shell hand the script *)

\* TARGET with the CARGO_CFG_TARGET_OS / _ENV / _FAMILY cargo derives from it.
Targets == {
    [target |-> <<"x","8","6","_","6","4","-","u","n","k","n","o","w","n","-","l","i","n","u","x","-","g","n","u">>,
     os |-> "linux", env |-> "gnu", family |-> "unix"],
    [target |-> <<"x","8","6","_","6","4","-","u","n","k","n","o","w","n","-","l","i","n","u","x","-","m","u","s","l">>,
     os |-> "linux", env |-> "musl", family |-> "unix"],
    [target |-> <<"x","8","6","_","6","4","-","p","c","-","w","i","n","d","o","w","s","-","m","s","v","c">>,
     os |-> "windows", env |-> "msvc", family |-> "windows"],
    [target |-> <<"x","8","6","_","6","4","-","p","c","-","w","i","n","d","o","w","s","-","g","n","u">>,
     os |-> "windows", env |-> "gnu", family |-> "windows"],
    [target |-> <<"x","8","6","_","6","4","-","a","p","p","l","e","-","d","a","r","w","i","n">>,
     os |-> "macos", env |-> "", family |-> "unix"],
    [target |-> <<"x","8","6","_","6","4","-","u","n","k","n","o","w","n","-","f","r","e","e","b","s","d">>,
     os |-> "freebsd", env |-> "", family |-> "unix"],
    [target |-> <<"x","8","6","_","6","4","-","u","n","k","n","o","w","n","-","h","a","i","k","u">>,
     os |-> "haiku", env |-> "", family |-> "unix"],
    [target |-> <<"a","a","r","c","h","6","4","-","l","i","n","u","x","-","a","n","d","r","o","i","d">>,
     os |-> "android", env |-> "", family |-> "unix"],
    [target |-> <<"a","r","m","v","7","-","l","i","n","u","x","-","a","n","d","r","o","i","d","e","a","b","i">>,
     os |-> "android", env |-> "", family |-> "unix"],
    [target |-> <<"x","8","6","_","6","4","-","l","i","n","u","x","-","a","n","d","r","o","i","d">>,
     os |-> "android", env |-> "", family |-> "unix"],
    [target |-> <<"i","6","8","6","-","l","i","n","u","x","-","a","n","d","r","o","i","d">>,
     os |-> "android", env |-> "", family |-> "unix"],
    [target |-> <<"a","r","m","-","l","i","n","u","x","-","a","n","d","r","o","i","d","e","a","b","i">>,
     os |-> "android", env |-> "", family |-> "unix"],
    [target |-> <<"t","h","u","m","b","v","7","n","e","o","n","-","l","i","n","u","x","-","a","n","d","r","o","i","d","e","a","b","i">>,
     os |-> "android", env |-> "", family |-> "unix"],
    [target |-> <<"r","i","s","c","v","6","4","-","l","i","n","u","x","-","a","n","d","r","o","i","d">>,
     os |-> "android", env |-> "", family |-> "unix"] }

\* MSYSTEM: unset, the three MSYS2 environments the code names, and another one.
Msystems == { None, Some(s_CLANG64), Some(s_CLANGARM64), Some(s_UCRT64), Some(s_MINGW64) }

\* CC: unset, "cc", "gcc", "clang", and a clang under a gcc-named directory.
CcHints == { None,
             Some(<<"c","c">>),
             Some(s_gcc),
             Some(s_clang),
             Some(<<"/","o","p","t","/","g","c","c","/","c","l","a","n","g">>) }

\* ANDROID_NDK and ANDROID_PLATFORM: unset or set.
NdkValues == { None, Some("/opt/ndk") }
PlatformValues == { None, Some("android-21") }

\* The operating systems the build script itself may be compiled for.
HostOses == { "linux", "macos", "freebsd", "openbsd" }

\* The cargo features build.rs tests with cfg!(feature = ...).
CargoFeatures == { "native-cpu", "qemu", "usewait-on-address", "lto", "notls",
                   "win8compat", "stats", "android-lld", "local_dynamic_tls",
                   "debug", "usecxx17", "check", "build_cc" }

FeatureSets == { S \in SUBSET CargoFeatures : Cardinality(S) <= MaxFeatures }

--------------------------------------------------------------------------
(* BuildFeatures, BuildConfig *)

BuildFeatures_new(f) ==
    [ native_cpu        |-> "native-cpu" \in f,
      qemu              |-> "qemu" \in f,
      wait_on_address   |-> "usewait-on-address" \in f,
      lto               |-> "lto" \in f,
      notls             |-> "notls" \in f,
      win8compat        |-> "win8compat" \in f,
      stats             |-> "stats" \in f,
      android_lld       |-> "android-lld" \in f,
      local_dynamic_tls |-> "local_dynamic_tls" \in f ]

is_msvc(c) == c.target_env = "msvc"
is_gnu(c) == c.target_env = "gnu"
is_windows(c) == c.target_os = "windows"
is_linux(c) == c.target_os = "linux"
is_unix(c) == c.target_family = "unix"
is_clang_msys(c) == c.msystem # None /\ Contains(c.msystem[1], s_CLANG)
is_ucrt64(c) == c.msystem = Some(s_UCRT64)

\* A faulty detect_compiler: the gcc test made before the clang test.
detect_compiler_gcc_first(c, cc) ==
    IF is_msvc(c) THEN "Msvc"
    ELSE IF cc # None /\ Contains(cc[1], s_gcc) THEN "Gcc"
    ELSE IF cc # None /\ Contains(cc[1], s_clang) THEN "Clang"
    ELSE "Unknown"

\* cc is the value of env::var("CC").
detect_compiler(c, cc) ==
    IF is_msvc(c) THEN "Msvc"
    ELSE IF cc # None /\ Contains(cc[1], s_clang) THEN "Clang"
    ELSE IF cc # None /\ Contains(cc[1], s_gcc) THEN "Gcc"
    ELSE "Unknown"

get_cpp_flags(f) ==
    IF "usecxx17" \in f THEN <<"-std=c++17", "/std:c++17">>
    ELSE <<"-std=c++20", "/std:c++20">>

\* cc::Build::new() or cmake::Config::new("snmalloc"): nothing applied yet.
Builder_new(f) ==
    [ kind    |-> IF "build_cc" \in f THEN "cc" ELSE "cmake",
      flags   |-> <<>>,
      defines |-> <<>>,
      profile |-> "" ]

\* BuildConfig::new with the environment it reads: the target facts t,
\* MSYSTEM ms and CC cc.
BuildConfig_new(f, t, ms, cc) ==
    LET debug == "debug" \in f
        c0 == [ debug              |-> debug,
                optim_level        |-> IF debug THEN "-O0" ELSE "-O3",
                target_os          |-> t.os,
                target_env         |-> t.env,
                target_family      |-> t.family,
                target             |-> t.target,
                out_dir            |-> "OUT_DIR",
                build_type         |-> IF debug THEN "Debug" ELSE "Release",
                msystem            |-> ms,
                cmake_cxx_standard |-> IF "usecxx17" \in f THEN "17" ELSE "20",
                target_lib         |-> IF "check" \in f THEN "snmallocshim-checks-rust"
                                       ELSE "snmallocshim-rust",
                features           |-> BuildFeatures_new(f),
                builder            |-> Builder_new(f),
                compiler           |-> "Unknown" ]
    IN  [c0 EXCEPT !.compiler = detect_compiler(c0, cc)]

--------------------------------------------------------------------------
(* The builder's two operations (trait BuilderDefine) *)

define(b, key, value) == [b EXCEPT !.defines = Append(@, <<key, value>>)]

\* cc::Build records the flag to try it on the compiler; for cmake::Config
\* the operation does nothing.
flag_if_supported(b, flag) ==
    IF b.kind = "cc" THEN [b EXCEPT !.flags = Append(@, flag)] ELSE b

RECURSIVE apply_defines(_, _)
apply_defines(b, defines) ==
    IF defines = <<>> THEN b
    ELSE apply_defines(define(b, defines[1][1], defines[1][2]), Tail(defines))

\* for flag in flags { builder.flag_if_supported(flag); }
RECURSIVE apply_flags(_, _)
apply_flags(b, flags) ==
    IF flags = <<>> THEN b
    ELSE apply_flags(flag_if_supported(b, flags[1]), Tail(flags))

--------------------------------------------------------------------------
(* main(), up to the first planner stage *)

with_builder(c, b) == [c EXCEPT !.builder = b]

\* The cmake main marks the build as a Rust build and sets the profile;
\* the cc main sets only sources and include paths, which no stage reads.
main_begin(c) ==
    IF c.builder.kind = "cmake"
    THEN with_builder(c,
            define([define(c.builder, "SNMALLOC_RUST_SUPPORT", <<"ON">>)
                       EXCEPT !.profile = c.build_type],
                   "CMAKE_SH", <<"CMAKE_SH-NOTFOUND">>))
    ELSE c

--------------------------------------------------------------------------
(* configure_msys2 *)

msys2_clang_defines ==
    << <<"CMAKE_CXX_COMPILER", <<"clang++">> >>,
       <<"CMAKE_C_COMPILER", <<"clang">> >>,
       <<"CMAKE_CXX_FLAGS", <<"-fuse-ld=lld", "-stdlib=libc++", "-mcx16",
                              "-Wno-error=unknown-pragmas", "-Qunused-arguments">> >>,
       <<"CMAKE_C_FLAGS", <<"-fuse-ld=lld", "-Wno-error=unknown-pragmas",
                            "-Qunused-arguments">> >>,
       <<"CMAKE_EXE_LINKER_FLAGS", <<"-fuse-ld=lld", "-stdlib=libc++">> >> >>

msys2_ucrt_defines ==
    << <<"CMAKE_CXX_FLAGS", <<"-fuse-ld=lld", "-Wno-error=unknown-pragmas">> >>,
       <<"CMAKE_SYSTEM_NAME", <<"Windows">> >>,
       <<"CMAKE_C_FLAGS", <<"-fuse-ld=lld", "-Wno-error=unknown-pragmas">> >> >>

configure_msys2(c) ==
    IF c.msystem = None THEN c
    ELSE IF c.msystem[1] \in {s_CLANG64, s_CLANGARM64}
         THEN with_builder(c, apply_defines(c.builder, msys2_clang_defines))
    ELSE IF c.msystem[1] = s_UCRT64
         THEN with_builder(c, apply_defines(c.builder, msys2_ucrt_defines))
    ELSE c

--------------------------------------------------------------------------
(* configure_platform and configure_android *)

common_flags == <<"-mcx16", "-fno-exceptions", "-fno-rtti", "-pthread">>
clang_flags == <<"-flto", "-fuse-ld=lld", "-stdlib=libc++",
                 "-Wno-error=unknown-pragmas", "-Qunused-arguments">>
ucrt_flags == <<"-Wno-error=unknown-pragmas", "-fuse-ld=lld", "-Qunused-arguments">>
unix_flags == <<"-fPIC", "-pthread", "-fno-exceptions", "-fno-rtti", "-mcx16",
                "-Wno-unused-parameter">>
msvc_flags == <<"/nologo", "/W4", "/WX", "/wd4127", "/wd4324", "/wd4201",
                "/Ob2", "/DNDEBUG", "/EHsc", "/Gd", "/TP", "/Gm-", "/GS",
                "/fp:precise", "/Zc:wchar_t", "/Zc:forScope", "/Zc:inline">>

\* The Windows and the Unix baseline: the first if / else if of configure_platform.
platform_baseline(c) ==
    IF is_windows(c)
    THEN LET b1 == apply_flags(c.builder, common_flags)
         IN  IF c.msystem = None THEN with_builder(c, b1)
             ELSE IF c.msystem[1] \in {s_CLANG64, s_CLANGARM64}
                  THEN with_builder(c, apply_flags(b1, clang_flags))
             ELSE IF c.msystem[1] = s_UCRT64
                  THEN with_builder(c, apply_flags(b1, ucrt_flags))
             ELSE with_builder(c, b1)
    ELSE IF is_linux(c) \/ is_unix(c)
         THEN with_builder(c, apply_flags(c.builder, unix_flags))
    ELSE c

msvc_dialect(c) ==
    with_builder(c,
        define(define(apply_flags(c.builder, msvc_flags),
                      "CMAKE_CXX_FLAGS_RELEASE", <<"/O2", "/Ob2", "/DNDEBUG", "/EHsc">>),
               "CMAKE_C_FLAGS_RELEASE", <<"/O2", "/Ob2", "/DNDEBUG", "/EHsc">>))

\* A faulty platform_msvc: the MSVC flag set applied to every Windows target.
platform_msvc_any_windows(c) ==
    IF is_windows(c) THEN msvc_dialect(c) ELSE c

\* The MSVC dialect: the if config.is_msvc() of configure_platform.
platform_msvc(c) ==
    IF is_msvc(c) THEN msvc_dialect(c) ELSE c

\* A faulty android_match: i686 mapped to the 64-bit ABI and armv7 without
\* its ARM mode.
android_match_swapped(t) ==
    IF Contains(t, s_aarch64) THEN [abi |-> Some(<<"arm64-v8a">>), arm_mode |-> FALSE]
    ELSE IF Contains(t, s_armv7) THEN [abi |-> Some(<<"armeabi-v7a">>), arm_mode |-> FALSE]
    ELSE IF Contains(t, s_x86_64) THEN [abi |-> Some(<<"x86_64">>), arm_mode |-> FALSE]
    ELSE IF Contains(t, s_i686) THEN [abi |-> Some(<<"x86_64">>), arm_mode |-> FALSE]
    ELSE IF Contains(t, s_neon)
         THEN [abi |-> Some(<<"armeabi-v7a", "with", "NEON">>), arm_mode |-> FALSE]
    ELSE IF Contains(t, s_arm) THEN [abi |-> Some(<<"armeabi-v7a">>), arm_mode |-> FALSE]
    ELSE [abi |-> None, arm_mode |-> FALSE]

\* The match on the triple: the ABI (None where the code panics) and whether
\* the arm taken defines ANDROID_ARM_MODE.
android_match(t) ==
    IF Contains(t, s_aarch64) THEN [abi |-> Some(<<"arm64-v8a">>), arm_mode |-> FALSE]
    ELSE IF Contains(t, s_armv7) THEN [abi |-> Some(<<"armeabi-v7a">>), arm_mode |-> TRUE]
    ELSE IF Contains(t, s_x86_64) THEN [abi |-> Some(<<"x86_64">>), arm_mode |-> FALSE]
    ELSE IF Contains(t, s_i686) THEN [abi |-> Some(<<"x86">>), arm_mode |-> FALSE]
    ELSE IF Contains(t, s_neon)
         THEN [abi |-> Some(<<"armeabi-v7a", "with", "NEON">>), arm_mode |-> FALSE]
    ELSE IF Contains(t, s_arm) THEN [abi |-> Some(<<"armeabi-v7a">>), arm_mode |-> FALSE]
    ELSE [abi |-> None, arm_mode |-> FALSE]

\* ndk and platform are the values of ANDROID_NDK and ANDROID_PLATFORM.  The
\* result holds the config as the function left it and whether it panicked.
configure_android(c, f, ndk, platform) ==
    IF ndk = None THEN [panicked |-> TRUE, config |-> c]
    ELSE
    LET b1 == define(c.builder, "CMAKE_TOOLCHAIN_FILE",
                     <<ndk[1] \o "/build/cmake/android.toolchain.cmake">>)
        b2 == IF platform # None THEN define(b1, "ANDROID_PLATFORM", <<platform[1]>>)
              ELSE b1
        b3 == IF "android-lld" \in f THEN define(b2, "ANDROID_LD", <<"lld">>) ELSE b2
        m  == android_match(c.target)
        b4 == IF m.arm_mode THEN define(b3, "ANDROID_ARM_MODE", <<"arm">>) ELSE b3
    IN  IF m.abi = None THEN [panicked |-> TRUE, config |-> with_builder(c, b4)]
        ELSE [panicked |-> FALSE,
              config |-> with_builder(c, define(b4, "ANDROID_ABI", m.abi[1]))]

targets_android(c) == Contains(c.target, s_android)

\* A faulty configure_platform: configure_android called for every target.
configure_platform_always_android(c, f, ndk, platform) ==
    configure_android(platform_msvc(platform_baseline(c)), f, ndk, platform)

configure_platform(c, f, ndk, platform) ==
    LET c1 == platform_msvc(platform_baseline(c))
    IN  IF targets_android(c1) THEN configure_android(c1, f, ndk, platform)
        ELSE [panicked |-> FALSE, config |-> c1]

--------------------------------------------------------------------------
(* configure_compiler_flags, configure_tls *)

\* A faulty configure_compiler_flags: with cmake the optimization level
\* handed over as the CMAKE_CXX_FLAGS define.
configure_compiler_flags_as_define(c, f) ==
    with_builder(c,
        apply_flags(
            flag_if_supported(
                IF c.builder.kind = "cmake"
                THEN define(c.builder, "CMAKE_CXX_FLAGS", <<c.optim_level>>)
                ELSE flag_if_supported(c.builder, c.optim_level),
                "-fomit-frame-pointer"),
            get_cpp_flags(f)))

configure_compiler_flags(c, f) ==
    with_builder(c,
        apply_flags(
            flag_if_supported(flag_if_supported(c.builder, c.optim_level),
                              "-fomit-frame-pointer"),
            get_cpp_flags(f)))

configure_tls(c) ==
    IF (is_unix(c) \/ is_gnu(c)) /\ c.target_os # "haiku"
    THEN with_builder(c,
            flag_if_supported(c.builder,
                IF c.features.local_dynamic_tls THEN "-ftls-model=local-dynamic"
                ELSE "-ftls-model=initial-exec"))
    ELSE c

--------------------------------------------------------------------------
(* configure_features *)

features_native_cpu(c) ==
    IF c.features.native_cpu
    THEN LET b1 == define(c.builder, "SNMALLOC_OPTIMISE_FOR_CURRENT_MACHINE", <<"ON">>)
         IN  with_builder(c, IF b1.kind = "cc" THEN flag_if_supported(b1, "-march=native")
                             ELSE b1)
    ELSE c

features_qemu(c) ==
    IF c.features.qemu
    THEN with_builder(c, define(c.builder, "SNMALLOC_QEMU_WORKAROUND", <<"ON">>))
    ELSE c

\* A faulty features_lto: only the unknown compiler skipped, as the comment
\* at build.rs 211 reads.
features_lto_msvc_too(c) ==
    IF c.features.lto /\ c.compiler # "Unknown"
    THEN with_builder(c, define(c.builder, "SNMALLOC_IPO", <<"ON">>))
    ELSE c

features_lto(c) ==
    IF c.features.lto /\ c.compiler \notin {"Unknown", "Msvc"}
    THEN with_builder(c, define(c.builder, "SNMALLOC_IPO", <<"ON">>))
    ELSE c

features_notls(c) ==
    IF c.features.notls
    THEN with_builder(c, define(c.builder, "SNMALLOC_ENABLE_DYNAMIC_LOADING", <<"ON">>))
    ELSE c

features_win8compat(c) ==
    IF c.features.win8compat
    THEN with_builder(c, IF c.builder.kind = "cc"
                         THEN define(c.builder, "WINVER", <<"0x0603">>)
                         ELSE define(c.builder, "WIN8COMPAT", <<"ON">>))
    ELSE c

\* A faulty features_wait_on_address: the define made only when the toggle
\* is set.
features_wait_on_address_if_set(c) ==
    IF c.features.wait_on_address
    THEN with_builder(c, define(c.builder, "SNMALLOC_USE_WAIT_ON_ADDRESS", <<"1">>))
    ELSE c

features_wait_on_address(c) ==
    with_builder(c, define(c.builder, "SNMALLOC_USE_WAIT_ON_ADDRESS",
                           IF c.features.wait_on_address THEN <<"1">> ELSE <<"0">>))

\* A faulty features_cmake: the language standard define moved inside the
\* stats test.
features_cmake_std_inside_stats(c) ==
    IF c.builder.kind = "cmake" /\ c.features.stats
    THEN with_builder(c, define(define(c.builder, "CMAKE_CXX_STANDARD",
                                       <<c.cmake_cxx_standard>>),
                                "USE_SNMALLOC_STATS", <<"ON">>))
    ELSE c

\* The block compiled only without build_cc.
features_cmake(c) ==
    IF c.builder.kind = "cmake"
    THEN LET b1 == define(c.builder, "CMAKE_CXX_STANDARD", <<c.cmake_cxx_standard>>)
         IN  with_builder(c, IF c.features.stats
                             THEN define(b1, "USE_SNMALLOC_STATS", <<"ON">>)
                             ELSE b1)
    ELSE c

configure_features(c) ==
    features_cmake(
     features_wait_on_address(
      features_win8compat(
       features_notls(
        features_lto(
         features_qemu(
          features_native_cpu(c)))))))

--------------------------------------------------------------------------
(* configure_linking *)

static_lib(name) == [kind |-> "static", name |-> name]
lib(name) == [kind |-> "dylib", name |-> name]
search(path) == [kind |-> "search", name |-> path]

\* dst is Some(path) in the cmake main and None in the cc main.
link_search(dst, suffix) ==
    IF dst = None THEN <<>> ELSE << search(dst[1] \o suffix) >>

\* A faulty link_msvc: mincore linked whatever the win8compat toggle says.
link_msvc_always_mincore(c, dst) ==
    << lib("mincore") >> \o link_search(dst, "/" \o c.build_type)

link_msvc(c, dst) ==
    (IF ~c.features.win8compat THEN << lib("mincore") >> ELSE <<>>)
    \o link_search(dst, "/" \o c.build_type)

link_windows_gnu(c) ==
    IF is_windows(c) /\ is_gnu(c)
    THEN << lib("bcrypt"), lib("winpthread") >>
         \o (IF is_clang_msys(c) THEN << lib("c++") >>
             ELSE IF is_ucrt64(c) THEN << lib("stdc++") >>
             ELSE << lib("stdc++"), lib("atomic") >>)
    ELSE <<>>

\* A faulty link_linux: the C++ runtime linked statically.
link_linux_static_runtime(c, f) ==
    IF is_linux(c)
    THEN << lib("atomic"), static_lib("stdc++"), lib("pthread") >>
         \o (IF "usecxx17" \in f /\ ~is_clang_msys(c) THEN << lib("gcc") >> ELSE <<>>)
    ELSE <<>>

link_linux(c, f) ==
    IF is_linux(c)
    THEN << lib("atomic"), lib("stdc++"), lib("pthread") >>
         \o (IF "usecxx17" \in f /\ ~is_clang_msys(c) THEN << lib("gcc") >> ELSE <<>>)
    ELSE <<>>

\* A faulty link_unix: the fallback made an if of its own instead of the
\* else of the Unix test.
link_unix_fallback_detached(c, host) ==
    (IF is_unix(c) /\ host # "macos" /\ host # "freebsd" /\ is_gnu(c)
     THEN << lib("c_nonshared") >> ELSE <<>>)
    \o (IF ~is_windows(c)
        THEN << lib(IF host \in {"macos", "openbsd"} THEN "c++" ELSE "stdc++") >>
        ELSE <<>>)

\* host is the build script's cfg!(target_os).
link_unix(c, host) ==
    IF is_unix(c) /\ host # "macos" /\ host # "freebsd"
    THEN (IF is_gnu(c) THEN << lib("c_nonshared") >> ELSE <<>>)
    ELSE IF ~is_windows(c)
         THEN << lib(IF host \in {"macos", "openbsd"} THEN "c++" ELSE "stdc++") >>
    ELSE <<>>

\* The lines configure_linking prints, in order.
configure_linking(c, f, host, dst) ==
    << static_lib(c.target_lib) >>
    \o (IF is_msvc(c) THEN link_msvc(c, dst)
        ELSE link_search(dst, "")
             \o (IF host = "freebsd"
                 THEN << search("/usr/local/lib"), lib("c++") >>
                 ELSE link_windows_gnu(c) \o link_linux(c, f) \o link_unix(c, host)))

\* The directory the cmake main passes: the build output with "build" pushed.
main_dst(c) ==
    IF c.builder.kind = "cmake" THEN Some(c.out_dir \o "/build") ELSE None

--------------------------------------------------------------------------
(* main() as one function of everything the script reads *)

\* f: the cargo features; t: the target facts; ms, cc, ndk, platform: the
\* values of MSYSTEM, CC, ANDROID_NDK, ANDROID_PLATFORM; host: the build
\* script's cfg!(target_os).
Plan(f, t, ms, cc, ndk, platform, host) ==
    LET c1 == main_begin(BuildConfig_new(f, t, ms, cc))
        c2 == IF c1.builder.kind = "cmake" THEN configure_msys2(c1) ELSE c1
        r  == configure_platform(c2, f, ndk, platform)
        c5 == configure_features(configure_tls(configure_compiler_flags(r.config, f)))
    IN  IF r.panicked
        THEN [ completed |-> FALSE, flags |-> r.config.builder.flags,
               defines |-> r.config.builder.defines, links |-> <<>> ]
        ELSE [ completed |-> TRUE, flags |-> c5.builder.flags,
               defines |-> c5.builder.defines,
               links |-> configure_linking(c5, f, host, main_dst(c5)) ]

--------------------------------------------------------------------------
(* The state machine: main() statement by statement *)

\* BuildConfig::new() has run: the features are fixed and the target facts,
\* MSYSTEM and CC have been read.
Init ==
    /\ pc = "main"
    /\ cfg \in FeatureSets
    /\ \E t \in Targets, ms \in Msystems, cc \in CcHints :
          /\ config = BuildConfig_new(cfg, t, ms, cc)
          /\ env_cc = cc
    /\ links = <<>>
    /\ android_ndk = None
    /\ android_platform = None
    /\ host_os = ""

Main ==
    /\ pc = "main"
    /\ config' = main_begin(config)
    /\ pc' = IF config.builder.kind = "cmake" THEN "msys2" ELSE "platform"
    /\ UNCHANGED <<cfg, links, env_cc, android_ndk, android_platform, host_os>>

ConfigureMsys2 ==
    /\ pc = "msys2"
    /\ config' = configure_msys2(config)
    /\ pc' = "platform"
    /\ UNCHANGED <<cfg, links, env_cc, android_ndk, android_platform, host_os>>

\* ANDROID_NDK is read only for an android triple, ANDROID_PLATFORM only once
\* the NDK was found.  A panic ends the run.
ConfigurePlatform ==
    /\ pc = "platform"
    /\ \E ndk \in (IF targets_android(config) THEN NdkValues ELSE {None}) :
       \E platform \in (IF ndk = None THEN {None} ELSE PlatformValues) :
          LET r == configure_platform(config, cfg, ndk, platform)
          IN  /\ config' = r.config
              /\ pc' = IF r.panicked THEN "aborted" ELSE "compiler_flags"
              /\ android_ndk' = ndk
              /\ android_platform' = platform
    /\ UNCHANGED <<cfg, links, env_cc, host_os>>

ConfigureCompilerFlags ==
    /\ pc = "compiler_flags"
    /\ config' = configure_compiler_flags(config, cfg)
    /\ pc' = "tls"
    /\ UNCHANGED <<cfg, links, env_cc, android_ndk, android_platform, host_os>>

ConfigureTls ==
    /\ pc = "tls"
    /\ config' = configure_tls(config)
    /\ pc' = "features"
    /\ UNCHANGED <<cfg, links, env_cc, android_ndk, android_platform, host_os>>

ConfigureFeatures ==
    /\ pc = "features"
    /\ config' = configure_features(config)
    /\ pc' = "linking"
    /\ UNCHANGED <<cfg, links, env_cc, android_ndk, android_platform, host_os>>

\* The native build, then the link directives.
ConfigureLinking ==
    /\ pc = "linking"
    /\ \E host \in HostOses :
          /\ links' = configure_linking(config, cfg, host, main_dst(config))
          /\ host_os' = host
    /\ pc' = "done"
    /\ UNCHANGED <<cfg, config, env_cc, android_ndk, android_platform>>

Next ==
    \/ Main
    \/ ConfigureMsys2
    \/ ConfigurePlatform
    \/ ConfigureCompilerFlags
    \/ ConfigureTls
    \/ ConfigureFeatures
    \/ ConfigureLinking

Spec == Init /\ [][Next]_vars

--------------------------------------------------------------------------
(* What the properties below read off a state *)

Flags == { config.builder.flags[i] : i \in DOMAIN config.builder.flags }
DefineCount(key) ==
    Cardinality({ i \in DOMAIN config.builder.defines : config.builder.defines[i][1] = key })
DefineValues(key) ==
    { config.builder.defines[i][2] :
        i \in { j \in DOMAIN config.builder.defines : config.builder.defines[j][1] = key } }
Dylibs == { links[i].name : i \in { j \in DOMAIN links : links[j].kind = "dylib" } }
Statics == { links[i].name : i \in { j \in DOMAIN links : links[j].kind = "static" } }

\* The target facts BuildConfig::new read.
TargetOf(c) ==
    [ target |-> c.target, os |-> c.target_os, env |-> c.target_env,
      family |-> c.target_family ]

\* The run's ordered output, as Plan gives it.
Output ==
    [ completed |-> pc = "done", flags |-> config.builder.flags,
      defines |-> config.builder.defines, links |-> links ]

Finished == pc \in {"done", "aborted"}
\* The builder holds its final flags and defines: configure_linking adds none.
BuilderComplete == pc \in {"linking", "aborted"}
AfterFeatures == pc \in {"linking", "done"}

--------------------------------------------------------------------------
(* C1: LTO gating *)

--------------------------------------------------------------------------
(* C2: the two flag dialects *)

UnixBaselineFlags ==
    { "-fPIC", "-pthread", "-fno-exceptions", "-fno-rtti", "-mcx16", "-Wno-unused-parameter" }
MsvcFlagSet ==
    { "/nologo", "/W4", "/WX", "/wd4127", "/wd4324", "/wd4201", "/Ob2", "/DNDEBUG",
      "/EHsc", "/Gd", "/TP", "/Gm-", "/GS", "/fp:precise", "/Zc:wchar_t",
      "/Zc:forScope", "/Zc:inline" }

\* C2 as claimed: with target_env = msvc the applied flags never hold a Unix
\* baseline flag, and with target_env = gnu never a flag of the MSVC set.
C2_MutualExclusion ==
    /\ config.target_env = "msvc" => Flags \cap UnixBaselineFlags = {}
    /\ config.target_env = "gnu" => Flags \cap MsvcFlagSet = {}

\* C2 as amended: with target_env = msvc on target_os = windows the applied
\* flags never hold -fPIC or -Wno-unused-parameter, the two Unix baseline
\* flags the Windows baseline does not share; with target_env = gnu they
\* never hold a flag of the MSVC set.
C2_DialectSeparation ==
    /\ (config.target_env = "msvc" /\ config.target_os = "windows")
          => Flags \cap { "-fPIC", "-Wno-unused-parameter" } = {}
    /\ config.target_env = "gnu" => Flags \cap MsvcFlagSet = {}

C2_Witness ==
    /\ pc = "done"
    /\ config.target_env = "msvc"
    /\ MsvcFlagSet \subseteq Flags
    /\ { "-mcx16", "-fno-exceptions", "-fno-rtti", "-pthread" } \subseteq Flags

--------------------------------------------------------------------------
(* C3: link kinds *)

\* C3: no library name is printed both as a static and as a dynamic
\* directive; the only static directive is the one for target_lib, printed
\* once, and target_lib is never among the dynamic ones.
C3_LinkKindConsistency ==
    /\ Statics \cap Dylibs = {}
    /\ Statics \subseteq { config.target_lib }
    /\ config.target_lib \notin Dylibs
    /\ pc = "done" => Cardinality({ i \in DOMAIN links : links[i].kind = "static" }) = 1

C3_Witness ==
    /\ pc = "done"
    /\ Statics = { config.target_lib }
    /\ { "atomic", "stdc++", "pthread" } \subseteq Dylibs

--------------------------------------------------------------------------
(* C4: the Android ABI *)

\* C4: for an android triple with ANDROID_NDK set, in the builder as the
\* planner leaves it: aarch64 gives exactly one ANDROID_ABI define, arm64-v8a; armv7
\* gives armeabi-v7a and ANDROID_ARM_MODE=arm, which no other triple gets;
\* x86_64 gives x86_64; i686 gives x86; a neon triple gives "armeabi-v7a
\* with NEON"; any other arm triple gives armeabi-v7a; a triple with none
\* of these substrings aborts the run with no ANDROID_ABI define.
C4_AndroidAbi ==
    (BuilderComplete /\ android_ndk # None /\ targets_android(config)) =>
    LET t == config.target
        One(abi) == /\ pc # "aborted"
                    /\ DefineCount("ANDROID_ABI") = 1
                    /\ DefineValues("ANDROID_ABI") = { abi }
    IN  /\ Contains(t, s_aarch64) => One(<<"arm64-v8a">>)
        /\ Contains(t, s_armv7) =>
              /\ One(<<"armeabi-v7a">>)
              /\ DefineCount("ANDROID_ARM_MODE") = 1
              /\ DefineValues("ANDROID_ARM_MODE") = { <<"arm">> }
        /\ ~Contains(t, s_armv7) => DefineCount("ANDROID_ARM_MODE") = 0
        /\ Contains(t, s_x86_64) => One(<<"x86_64">>)
        /\ Contains(t, s_i686) => One(<<"x86">>)
        /\ Contains(t, s_neon) => One(<<"armeabi-v7a", "with", "NEON">>)
        /\ (Contains(t, s_arm) /\ ~Contains(t, s_armv7) /\ ~Contains(t, s_neon))
              => One(<<"armeabi-v7a">>)
        /\ (\A a \in {s_aarch64, s_armv7, s_x86_64, s_i686, s_neon, s_arm} : ~Contains(t, a))
              => (pc = "aborted" /\ DefineCount("ANDROID_ABI") = 0)

C4_Witness ==
    /\ pc = "linking"
    /\ Contains(config.target, s_android)
    /\ Contains(config.target, s_armv7)
    /\ DefineValues("ANDROID_ABI") = { <<"armeabi-v7a">> }
    /\ DefineValues("ANDROID_ARM_MODE") = { <<"arm">> }
    /\ DefineValues("CMAKE_TOOLCHAIN_FILE") = { <<"/opt/ndk/build/cmake/android.toolchain.cmake">> }

--------------------------------------------------------------------------
(* C5: toggle independence *)

Toggles == { "native-cpu", "qemu", "usewait-on-address", "lto", "notls",
             "win8compat", "stats", "android-lld", "local_dynamic_tls" }

\* The entries attributable to a toggle: define names, flags, libraries.
ToggleDefines(tg) ==
    CASE tg = "native-cpu" -> { "SNMALLOC_OPTIMISE_FOR_CURRENT_MACHINE" }
      [] tg = "qemu" -> { "SNMALLOC_QEMU_WORKAROUND" }
      [] tg = "usewait-on-address" -> { "SNMALLOC_USE_WAIT_ON_ADDRESS" }
      [] tg = "lto" -> { "SNMALLOC_IPO" }
      [] tg = "notls" -> { "SNMALLOC_ENABLE_DYNAMIC_LOADING" }
      [] tg = "win8compat" -> { "WINVER", "WIN8COMPAT" }
      [] tg = "stats" -> { "USE_SNMALLOC_STATS" }
      [] tg = "android-lld" -> { "ANDROID_LD" }
      [] OTHER -> {}
ToggleFlags(tg) ==
    CASE tg = "native-cpu" -> { "-march=native" }
      [] tg = "local_dynamic_tls" -> { "-ftls-model=local-dynamic", "-ftls-model=initial-exec" }
      [] OTHER -> {}
ToggleLibs(tg) ==
    IF tg = "win8compat" THEN { "mincore" } ELSE {}

\* An output without the entries attributable to toggle tg, order kept.
Without(tg, out) ==
    LET KeepFlag(x) == x \notin ToggleFlags(tg)
        KeepDefine(d) == d[1] \notin ToggleDefines(tg)
        KeepLink(l) == ~(l.kind = "dylib" /\ l.name \in ToggleLibs(tg))
    IN  [ completed |-> out.completed,
          flags     |-> SelectSeq(out.flags, KeepFlag),
          defines   |-> SelectSeq(out.defines, KeepDefine),
          links     |-> SelectSeq(out.links, KeepLink) ]

\* The run that read what this one read, with toggle tg unset.
RunWithout(tg) ==
    Plan(cfg \ {tg}, TargetOf(config), config.msystem, env_cc,
         android_ndk, android_platform, host_os)

\* C5: a finished run and the run with one of its toggles unset and
\* everything else the same differ only in the entries attributable to that
\* toggle: the other flags, defines and link directives are the same, in
\* the same order, and the one run completes exactly if the other does.
C5_ToggleIndependence ==
    Finished =>
        \A tg \in cfg \cap Toggles : Without(tg, Output) = Without(tg, RunWithout(tg))

C5_Witness ==
    /\ pc = "done"
    /\ "win8compat" \in cfg
    /\ config.target_env = "msvc"
    /\ "mincore" \notin Dylibs
    /\ lib("mincore") \in { RunWithout("win8compat").links[i] :
                              i \in DOMAIN RunWithout("win8compat").links }
    /\ DefineCount("WIN8COMPAT") = 1

--------------------------------------------------------------------------
(* C6: determinism *)

\* C6 as claimed, for the host operating system configure_linking consults:
\* a completed run's ordered flags, defines and link directives are fixed by
\* the target facts, MSYSTEM, the compiler and the features, so they are
\* what the same run would have printed with the build script compiled for
\* any other host.
C6_Determinism ==
    pc = "done" =>
        \A host \in HostOses :
            Output = Plan(cfg, TargetOf(config), config.msystem, env_cc,
                          android_ndk, android_platform, host)

--------------------------------------------------------------------------
(* C7: compiler classification *)

HintHas(word) == env_cc # None /\ Contains(env_cc[1], word)

\* C7: at every step of the run the compiler is Msvc if target_env is msvc,
\* whatever CC holds; otherwise Clang if CC contains "clang" (also when it
\* contains "gcc"), else Gcc if CC contains "gcc", else Unknown (CC unset
\* included).
C7_CompilerClassification ==
    /\ config.target_env = "msvc" => config.compiler = "Msvc"
    /\ (config.target_env # "msvc" /\ HintHas(s_clang)) => config.compiler = "Clang"
    /\ (config.target_env # "msvc" /\ ~HintHas(s_clang) /\ HintHas(s_gcc))
          => config.compiler = "Gcc"
    /\ (config.target_env # "msvc" /\ ~HintHas(s_clang) /\ ~HintHas(s_gcc))
          => config.compiler = "Unknown"

C7_Witness ==
    /\ pc = "done"
    /\ HintHas(s_clang)
    /\ HintHas(s_gcc)
    /\ config.compiler = "Clang"

--------------------------------------------------------------------------
(* C8: the wait-on-address define *)

\* C8: a completed run holds exactly one SNMALLOC_USE_WAIT_ON_ADDRESS
\* define, valued "1" with the wait_on_address toggle set and "0" without.
C8_WaitOnAddressDefined ==
    pc = "done" =>
        /\ DefineCount("SNMALLOC_USE_WAIT_ON_ADDRESS") = 1
        /\ DefineValues("SNMALLOC_USE_WAIT_ON_ADDRESS")
              = { IF config.features.wait_on_address THEN <<"1">> ELSE <<"0">> }

C8_Witness ==
    /\ pc = "done"
    /\ ~config.features.wait_on_address
    /\ DefineValues("SNMALLOC_USE_WAIT_ON_ADDRESS") = { <<"0">> }

--------------------------------------------------------------------------
(* C9, C10: the Windows + GNU and the Linux link rules *)

ClangVariant == config.msystem \in { Some(s_CLANG64), Some(s_CLANGARM64) }

\* C9 as claimed: a completed run for os = windows, env = gnu links bcrypt
\* and winpthread; with MSYSTEM CLANG64 or CLANGARM64 it links c++ and not
\* stdc++; with any other MSYSTEM, UCRT64 and none included, it links both
\* stdc++ and atomic.
C9_WindowsGnuLinks ==
    (pc = "done" /\ config.target_os = "windows" /\ config.target_env = "gnu") =>
        /\ { "bcrypt", "winpthread" } \subseteq Dylibs
        /\ ClangVariant => ("c++" \in Dylibs /\ "stdc++" \notin Dylibs)
        /\ ~ClangVariant => { "stdc++", "atomic" } \subseteq Dylibs

\* C10 as claimed: a completed run for os = linux and env other than msvc
\* links atomic, stdc++ and pthread; it links gcc exactly if usecxx17 is
\* set and MSYSTEM is no clang variant; it never links mincore.
C10_LinuxLinks ==
    (pc = "done" /\ config.target_os = "linux" /\ config.target_env # "msvc") =>
        /\ { "atomic", "stdc++", "pthread" } \subseteq Dylibs
        /\ "gcc" \in Dylibs <=> ("usecxx17" \in cfg /\ ~ClangVariant)
        /\ "mincore" \notin Dylibs

--------------------------------------------------------------------------
(* C11: win8compat in place of mincore *)

Win8MarkerCount == DefineCount("WINVER") + DefineCount("WIN8COMPAT")

\* C11: a completed run for target_env = msvc links mincore exactly if the
\* win8compat toggle is unset and holds the Windows-8 minimum-version define
\* (WINVER with cc, WIN8COMPAT with cmake) exactly if it is set, so exactly
\* one of the two is present; with any other target_env mincore is never
\* linked.
C11_Win8CompatSubstitutes ==
    /\ pc = "done" =>
          IF config.target_env = "msvc"
          THEN /\ "mincore" \in Dylibs <=> ~config.features.win8compat
               /\ Win8MarkerCount = (IF config.features.win8compat THEN 1 ELSE 0)
               /\ ("mincore" \in Dylibs) # (Win8MarkerCount > 0)
          ELSE "mincore" \notin Dylibs
    /\ pc # "done" => links = <<>>

C11_Witness ==
    /\ pc = "done"
    /\ config.target_env = "msvc"
    /\ config.features.win8compat
    /\ config.builder.kind = "cc"
    /\ DefineValues("WINVER") = { <<"0x0603">> }
    /\ "mincore" \notin Dylibs

--------------------------------------------------------------------------
(* C12: the fallback C++ runtime *)

\* The rules of the link planner that come before the fallback, read on the
\* target: FreeBSD, Windows + GNU, Linux, and the other Unixes (every unix
\* family target but macOS and FreeBSD).
EarlierLinkRuleMatched ==
    \/ config.target_os \in { "freebsd", "linux" }
    \/ (config.target_os = "windows" /\ config.target_env = "gnu")
    \/ (config.target_family = "unix" /\ config.target_os \notin { "macos", "freebsd" })

\* C12 as claimed: a completed run for a target that is neither Windows nor
\* MSVC and that none of the FreeBSD, Windows + GNU, Linux and other-Unix
\* rules matched links the default C++ runtime of the target platform: c++
\* for macOS and OpenBSD, stdc++ elsewhere.
C12_FallbackRuntime ==
    (/\ pc = "done"
     /\ config.target_os # "windows"
     /\ config.target_env # "msvc"
     /\ ~EarlierLinkRuleMatched) =>
        (IF config.target_os \in { "macos", "openbsd" } THEN "c++" ELSE "stdc++") \in Dylibs

--------------------------------------------------------------------------
(* C13, C14: the MSYS2 toolchain override *)

\* configure_msys2 has run: only the cmake main calls it.
AfterMsys2 == config.builder.kind = "cmake" /\ pc \notin { "main", "msys2" }

\* The builder as the cmake main hands it to configure_msys2.
BuilderBeforeMsys2 ==
    main_begin(BuildConfig_new(cfg, TargetOf(config), config.msystem, env_cc)).builder

\* C13 as claimed: right after configure_msys2, with MSYSTEM unset, or set to
\* a value other than CLANG64, CLANGARM64 and UCRT64, or with a target
\* family other than windows, the builder is as configure_msys2 found it.
C13_OverrideApplicability ==
    (/\ pc = "platform"
     /\ config.builder.kind = "cmake"
     /\ \/ config.msystem \notin { Some(s_CLANG64), Some(s_CLANGARM64), Some(s_UCRT64) }
        \/ config.target_family # "windows") =>
        config.builder = BuilderBeforeMsys2

\* The define key is made exactly once and its value holds every word of ws.
DefineHolds(key, ws) ==
    /\ DefineCount(key) = 1
    /\ \A v \in DefineValues(key) : ws \subseteq { v[i] : i \in DOMAIN v }

\* C14 as claimed: once configure_msys2 has run for a windows family target,
\* with MSYSTEM CLANG64 or CLANGARM64 the compilers are clang and clang++,
\* the C and the C++ flag strings both hold -fuse-ld=lld, -mcx16,
\* -Wno-error=unknown-pragmas and -Qunused-arguments, the C++ flag string
\* selects libc++ and the final-link flags hold -fuse-ld=lld; with MSYSTEM
\* UCRT64 the system name is Windows, both flag strings hold -fuse-ld=lld
\* and -Wno-error=unknown-pragmas, and neither holds a -stdlib switch.
C14_OverrideContents ==
    (AfterMsys2 /\ config.target_family = "windows") =>
        /\ config.msystem \in { Some(s_CLANG64), Some(s_CLANGARM64) } =>
              /\ DefineHolds("CMAKE_C_COMPILER", { "clang" })
              /\ DefineHolds("CMAKE_CXX_COMPILER", { "clang++" })
              /\ DefineHolds("CMAKE_CXX_FLAGS",
                     { "-fuse-ld=lld", "-stdlib=libc++", "-mcx16",
                       "-Wno-error=unknown-pragmas", "-Qunused-arguments" })
              /\ DefineHolds("CMAKE_C_FLAGS",
                     { "-fuse-ld=lld", "-mcx16", "-Wno-error=unknown-pragmas",
                       "-Qunused-arguments" })
              /\ DefineHolds("CMAKE_EXE_LINKER_FLAGS", { "-fuse-ld=lld" })
        /\ config.msystem = Some(s_UCRT64) =>
              /\ DefineHolds("CMAKE_SYSTEM_NAME", { "Windows" })
              /\ DefineHolds("CMAKE_CXX_FLAGS", { "-fuse-ld=lld", "-Wno-error=unknown-pragmas" })
              /\ DefineHolds("CMAKE_C_FLAGS", { "-fuse-ld=lld", "-Wno-error=unknown-pragmas" })
              /\ \A k \in { "CMAKE_CXX_FLAGS", "CMAKE_C_FLAGS" } :
                     \A v \in DefineValues(k) : \A i \in DOMAIN v : v[i] # "-stdlib=libc++"

--------------------------------------------------------------------------
(* C15: the Android gate *)

AndroidDefines == { "CMAKE_TOOLCHAIN_FILE", "ANDROID_ABI", "ANDROID_ARM_MODE",
                    "ANDROID_PLATFORM", "ANDROID_LD" }

NoAndroidDefine ==
    \A i \in DOMAIN config.builder.defines :
        config.builder.defines[i][1] \notin AndroidDefines

\* configure_platform run again on what this run handed it, with ANDROID_NDK
\* and ANDROID_PLATFORM holding ndk and platform.
PlatformStageWith(ndk, platform) ==
    LET c1 == main_begin(BuildConfig_new(cfg, TargetOf(config), config.msystem, env_cc))
        c2 == IF c1.builder.kind = "cmake" THEN configure_msys2(c1) ELSE c1
    IN  configure_platform(c2, cfg, ndk, platform)

\* C15: the Android stage runs exactly for the triples that contain
\* "android".  For such a triple the run is aborted in configure_platform
\* if ANDROID_NDK is unset, and otherwise holds the CMAKE_TOOLCHAIN_FILE
\* define from then on.  For any other triple the run is never aborted,
\* no define of the Android stage is ever in the plan, and
\* configure_platform leaves the same config whatever ANDROID_NDK and
\* ANDROID_PLATFORM hold.
C15_AndroidGate ==
    IF Contains(config.target, s_android)
    THEN pc \notin { "main", "msys2", "platform" } =>
            IF android_ndk = None
            THEN pc = "aborted" /\ NoAndroidDefine
            ELSE DefineCount("CMAKE_TOOLCHAIN_FILE") = 1
    ELSE /\ pc # "aborted"
         /\ NoAndroidDefine
         /\ pc = "compiler_flags" =>
               \A ndk \in NdkValues, platform \in PlatformValues :
                   PlatformStageWith(ndk, platform) = [panicked |-> FALSE, config |-> config]

C15_Witness ==
    /\ pc = "aborted"
    /\ Contains(config.target, s_android)
    /\ android_ndk = None
    /\ DefineCount("CMAKE_TOOLCHAIN_FILE") = 0
    /\ "-fPIC" \in Flags \/ config.builder.kind = "cmake"

--------------------------------------------------------------------------
(* C16: the order of the stages' entries *)

RangeOf(seq) == { seq[i] : i \in DOMAIN seq }

\* The stage of spec 4.3 a flag belongs to: 1 platform baseline, 2 MSVC
\* dialect, 3 optimization, 4 language standard, 5 TLS model, 6 features.
FlagStage(x) ==
    IF x \in RangeOf(msvc_flags) THEN 2
    ELSE IF x \in { "-O0", "-O3", "-fomit-frame-pointer" } THEN 3
    ELSE IF x \in { "-std=c++17", "/std:c++17", "-std=c++20", "/std:c++20" } THEN 4
    ELSE IF x \in { "-ftls-model=local-dynamic", "-ftls-model=initial-exec" } THEN 5
    ELSE IF x = "-march=native" THEN 6
    ELSE 1

\* The same for a define key; 0 is what main and the MSYS2 override set
\* before the first stage, 7 the Android stage.
DefineStage(k) ==
    IF k \in { "CMAKE_CXX_FLAGS_RELEASE", "CMAKE_C_FLAGS_RELEASE" } THEN 2
    ELSE IF k \in { "SNMALLOC_OPTIMISE_FOR_CURRENT_MACHINE", "SNMALLOC_QEMU_WORKAROUND",
                    "SNMALLOC_IPO", "SNMALLOC_ENABLE_DYNAMIC_LOADING", "WINVER",
                    "WIN8COMPAT", "SNMALLOC_USE_WAIT_ON_ADDRESS", "CMAKE_CXX_STANDARD",
                    "USE_SNMALLOC_STATS" } THEN 6
    ELSE IF k \in AndroidDefines THEN 7
    ELSE 0

\* C16 as claimed: in a run that has passed configure_features the flags
\* stand in the order of their stages (platform baseline, MSVC dialect,
\* optimization, language standard, TLS model, features) and so do the
\* defines, those of the Android stage after those of all six.
C16_StageOrdering ==
    AfterFeatures =>
        /\ \A i, j \in DOMAIN config.builder.flags :
              i < j => FlagStage(config.builder.flags[i]) <= FlagStage(config.builder.flags[j])
        /\ \A i, j \in DOMAIN config.builder.defines :
              i < j => DefineStage(config.builder.defines[i][1])
                          <= DefineStage(config.builder.defines[j][1])

--------------------------------------------------------------------------
(* C17: the MSYS2 override is kept *)

\* The keys configure_msys2 defines.
Msys2Keys ==
    { msys2_clang_defines[i][1] : i \in DOMAIN msys2_clang_defines }
        \cup { msys2_ucrt_defines[i][1] : i \in DOMAIN msys2_ucrt_defines }

IsPrefix(s, t) == Len(s) <= Len(t) /\ \A i \in DOMAIN s : t[i] = s[i]

\* One step of the run keeps every flag, define and link directive where it
\* was, and a define it adds under a key of the MSYS2 override repeats a
\* value that key already has.
StepKeepsPlan ==
    /\ IsPrefix(config.builder.flags, config'.builder.flags)
    /\ IsPrefix(config.builder.defines, config'.builder.defines)
    /\ IsPrefix(links, links')
    /\ \A j \in (DOMAIN config'.builder.defines) \ (DOMAIN config.builder.defines) :
          LET d == config'.builder.defines[j]
          IN  (d[1] \in Msys2Keys /\ pc # "msys2") => d[2] \in DefineValues(d[1])

\* configure_msys2 finds the builder as the cmake main set it up: no
\* planner stage has run, and configure_platform is the next to run.
Msys2RunsFirst ==
    pc = "msys2" =>
        /\ config.builder = BuilderBeforeMsys2
        /\ config.builder.flags = <<>>
        /\ links = <<>>
        /\ pc' = "platform"

\* C17: configure_msys2 runs before configure_platform, configure_compiler_flags,
\* configure_tls and configure_features; no later step removes a define it
\* made or defines one of its keys again with another value, and no step
\* removes a flag, define or link directive the plan already holds.
C17_BaselinePreserved == [][StepKeepsPlan /\ Msys2RunsFirst]_vars

C17_Witness ==
    /\ pc = "done"
    /\ config.msystem = Some(s_CLANG64)
    /\ config.target_os = "windows"
    /\ DefineValues("CMAKE_CXX_COMPILER") = { <<"clang++">> }
    /\ DefineValues("CMAKE_EXE_LINKER_FLAGS") = { <<"-fuse-ld=lld", "-stdlib=libc++">> }
    /\ DefineCount("CMAKE_CXX_FLAGS") = 1
    /\ DefineCount("CMAKE_CXX_STANDARD") = 1
    /\ "c++" \in Dylibs

--------------------------------------------------------------------------
(* C18: no library linked twice *)

\* The positions of links that name library n, static or dynamic.
LinksOf(n) == { i \in DOMAIN links : links[i].kind # "search" /\ links[i].name = n }

====
